---- MODULE Spec2Model ----
(***************************************************************************)
(* Model of pkg/testfixtures/storage/mysql.go: the MySQL test container    *)
(* fixture.  One test goroutine runs RunMySQLTestContainer step by step    *)
(* (every call to the docker client, the sql driver and goose is a step    *)
(* whose outcome the environment chooses), a watchdog goroutine sleeps     *)
(* and then stops the container, and the testing framework runs the        *)
(* registered cleanup when the test function has exited.  The test process *)
(* is taken to stay alive (other tests keep running), so the watchdog      *)
(* goroutine is never killed.                                              *)
(*                                                                         *)
(* Strings are sequences of one-character strings, so that formatting is   *)
(* computed and two differently written formats can be compared.           *)
(* Time is in seconds.                                                     *)
(***************************************************************************)
EXTENDS Integers, Sequences, FiniteSets, TLC

VARIABLES
    pc,                 \* position of the test goroutine
    log,                \* setup calls made so far, each with its outcome
    fatals,             \* failures reported on the test handle t
    cont,               \* state of the docker container
    stops,              \* ContainerStop calls issued so far
    cleanupRegistered,  \* t.Cleanup(stopContainer) has been called
    wd,                 \* position of the watchdog goroutine
    wdWakeAt,           \* time at which the watchdog's sleep ends
    now,                \* the clock
    m,                  \* the receiver, made by NewMySQLTestContainer
    inst,               \* the local struct built at line 120
    p,                  \* containerJSON.NetworkSettings.Ports["3306/tcp"]
    uri,                \* the local uri of line 125
    retryStart,         \* time at which the backoff policy was reset
    wakeAt,             \* time at which the current backoff sleep ends
    attempted,          \* the retried operation has been called at least once
    db,                 \* the handle opened at line 152
    migrated,           \* goose.Up has succeeded on the database
    applied,            \* versions of the migrations applied to the database
    ret,                \* what RunMySQLTestContainer returned
    uriCalls,           \* number of GetConnectionURI calls made
    uriOut              \* target and result of the last GetConnectionURI call

vars == <<pc, log, fatals, cont, stops, cleanupRegistered, wd, wdWakeAt, now,
          m, inst, p, uri, retryStart, wakeAt, attempted, db, migrated,
          applied, ret,
          uriCalls, uriOut>>

dockerVars == <<cont, stops>>
wdVars     == <<wd, wdWakeAt>>
instVars   == <<m, inst, p, uri, db, migrated, applied, ret>>
retryVars  == <<retryStart, wakeAt, attempted>>
uriVars    == <<uriCalls, uriOut>>

----------------------------------------------------------------------------
(* Bounds and constants *)

MaxTime == 30
TickLen == 15
MaxURICalls == 2
NumMigrations == 3

MaxElapsedTime == 60
ExpireTimeout == 75

\* intervals the exponential backoff policy may hand out
Intervals == {15, 30}

\* no clock value of the model lies beyond it
Horizon == MaxTime + TickLen + ExpireTimeout + MaxElapsedTime

Max(a, b) == IF a >= b THEN a ELSE b
Min(a, b) == IF a <= b THEN a ELSE b

----------------------------------------------------------------------------
(* Strings *)

rootCreds == <<"r","o","o","t",":","s","e","c","r","e","t">>
defaultdb == <<"d","e","f","a","u","l","t","d","b">>
addrFormat == <<"l","o","c","a","l","h","o","s","t",":","%","s">>
uriFormat ==
    <<"%","s","@","t","c","p","(","%","s",")","/",
      "d","e","f","a","u","l","t","d","b",
      "?","p","a","r","s","e","T","i","m","e","=","t","r","u","e">>
getURIFormat ==
    <<"%","s","@","t","c","p","(","%","s",")","/","%","s",
      "?","p","a","r","s","e","T","i","m","e","=","t","r","u","e">>

\* values of Ports["3306/tcp"]: no binding, one binding, two bindings
PortLists ==
    {<<>>, <<(<<"3","3","0","6">>)>>,
     <<(<<"4","9","1","5","3">>), (<<"3","3","0","6">>)>>}

missingArg == <<"%","!","s","(","M","I","S","S","I","N","G",")">>

RECURSIVE Sprintf(_, _)
Sprintf(f, args) ==
    IF f = <<>> THEN <<>>
    ELSE IF Len(f) >= 2 /\ f[1] = "%" /\ f[2] = "s"
         THEN IF args = <<>>
              THEN missingArg \o Sprintf(Tail(Tail(f)), args)
              ELSE Head(args) \o Sprintf(Tail(Tail(f)), Tail(args))
         ELSE <<f[1]>> \o Sprintf(Tail(f), args)

----------------------------------------------------------------------------
(* Values *)

NoConn == [dsn |-> <<>>, open |-> FALSE, pinged |-> FALSE]
ZeroContainer == [conn |-> NoConn, addr |-> <<>>, creds |-> <<>>]

OpenHandle(dsn) == [dsn |-> dsn, open |-> TRUE, pinged |-> FALSE]

Fatal(by, msg) == [by |-> by, msg |-> msg]

Entry(op, ok) == [op |-> op, ok |-> ok]

Logged(op) == \E i \in DOMAIN log : log[i].op = op /\ log[i].ok

LoggedFailure(op) == \E i \in DOMAIN log : log[i].op = op /\ ~log[i].ok

StoppedBy(by) == \E i \in DOMAIN stops : stops[i].by = by

----------------------------------------------------------------------------
(* The docker daemon *)

\* answers the daemon may give to ContainerStop for a container in state c
StopOutcomes(c) ==
    IF c = "removed" THEN {"notfound", "error"} ELSE {"ok", "error"}

\* the container after a ContainerStop answered res; a running container
\* exits, and is removed later because of AutoRemove
AfterStop(c, res) == IF res = "ok" /\ c = "running" THEN "exited" ELSE c

ContainerStop(by, res) ==
    /\ res \in StopOutcomes(cont)
    /\ cont' = AfterStop(cont, res)
    /\ stops' = Append(stops, [by |-> by, res |-> res, found |-> cont,
                               at |-> now])

IsErrNotFound(res) == res = "notfound"

StopFails_AnyError(res) == res # "ok"

\* stopContainer's test, line 87
StopFails(res) == res # "ok" /\ ~IsErrNotFound(res)

ExpireFails_AnyError(res) == res # "ok"

\* the watchdog's test, line 111
ExpireFails(res) == res # "ok" /\ ~IsErrNotFound(res)

----------------------------------------------------------------------------
(* Initial state: the test holds the empty struct of NewMySQLTestContainer *)

NewMySQLTestContainer == ZeroContainer

Init ==
    /\ pc = "NewClient"
    /\ log = <<>>
    /\ fatals = {}
    /\ cont = "none"
    /\ stops = <<>>
    /\ cleanupRegistered = FALSE
    /\ wd = "none"
    /\ wdWakeAt = 0
    /\ now = 0
    /\ m = NewMySQLTestContainer
    /\ inst = ZeroContainer
    /\ p = [ok |-> FALSE, list |-> <<>>]
    /\ uri = <<>>
    /\ retryStart = 0
    /\ wakeAt = 0
    /\ attempted = FALSE
    /\ db = NoConn
    /\ migrated = FALSE
    /\ applied = {}
    /\ ret = "none"
    /\ uriCalls = 0
    /\ uriOut = [on |-> "none", val |-> <<>>]

----------------------------------------------------------------------------
(* RunMySQLTestContainer, step by step *)

Require_Continue(op, ok, next) ==
    /\ log' = Append(log, Entry(op, ok))
    /\ pc' = next
    /\ fatals' = IF ok THEN fatals
                 ELSE fatals \cup {Fatal("test", "require.NoError")}

\* require.NoError(t, err) after the call op
Require(op, ok, next) ==
    /\ log' = Append(log, Entry(op, ok))
    /\ IF ok
       THEN pc' = next /\ fatals' = fatals
       ELSE /\ pc' = "exit"
            /\ fatals' = fatals \cup {Fatal("test", "require.NoError")}

NewClient ==
    /\ pc = "NewClient"
    /\ \E ok \in BOOLEAN : Require("NewClient", ok, "ImagePull")
    /\ UNCHANGED <<dockerVars, cleanupRegistered, wdVars, now, instVars,
                   retryVars, uriVars>>

ImagePull ==
    /\ pc = "ImagePull"
    /\ \E ok \in BOOLEAN : Require("ImagePull", ok, "Copy")
    /\ UNCHANGED <<dockerVars, cleanupRegistered, wdVars, now, instVars,
                   retryVars, uriVars>>

CopyPullOutput ==
    /\ pc = "Copy"
    /\ \E ok \in BOOLEAN : Require("Copy", ok, "NewString")
    /\ UNCHANGED <<dockerVars, cleanupRegistered, wdVars, now, instVars,
                   retryVars, uriVars>>

NewString_SkipCreate ==
    /\ pc = "NewString"
    /\ \E ok \in BOOLEAN : Require("NewString", ok, "ContainerStart")
    /\ UNCHANGED <<dockerVars, cleanupRegistered, wdVars, now, instVars,
                   retryVars, uriVars>>

NewString ==
    /\ pc = "NewString"
    /\ \E ok \in BOOLEAN : Require("NewString", ok, "ContainerCreate")
    /\ UNCHANGED <<dockerVars, cleanupRegistered, wdVars, now, instVars,
                   retryVars, uriVars>>

ContainerCreate ==
    /\ pc = "ContainerCreate"
    /\ \E ok \in BOOLEAN :
          /\ Require("ContainerCreate", ok, "ContainerStart")
          /\ cont' = IF ok THEN "created" ELSE cont
    /\ UNCHANGED <<stops, cleanupRegistered, wdVars, now, instVars,
                   retryVars, uriVars>>

ContainerStart_ReportBoth ==
    /\ pc = "ContainerStart"
    /\ \/ /\ log' = Append(log, Entry("ContainerStart", TRUE))
          /\ cont' = "running"
          /\ pc' = "ContainerInspect"
          /\ UNCHANGED <<fatals, stops>>
       \/ /\ log' = Append(log, Entry("ContainerStart", FALSE))
          /\ \E res \in StopOutcomes(cont) :
                /\ ContainerStop("direct", res)
                /\ fatals' = fatals \cup
                      {Fatal("test", "failed to start mysql container")} \cup
                      (IF StopFails(res)
                       THEN {Fatal("test", "failed to stop mysql container")}
                       ELSE {})
          /\ pc' = "exit"
    /\ UNCHANGED <<cleanupRegistered, wdVars, now, instVars, retryVars,
                   uriVars>>

\* lines 92-96; a t.Fatalf inside stopContainer ends the test goroutine, so
\* the t.Fatalf of line 95 is not reached then
ContainerStart ==
    /\ pc = "ContainerStart"
    /\ \/ /\ log' = Append(log, Entry("ContainerStart", TRUE))
          /\ cont' = "running"
          /\ pc' = "ContainerInspect"
          /\ UNCHANGED <<fatals, stops>>
       \/ /\ log' = Append(log, Entry("ContainerStart", FALSE))
          /\ \E res \in StopOutcomes(cont) :
                /\ ContainerStop("direct", res)
                /\ fatals' = fatals \cup
                      {IF StopFails(res)
                       THEN Fatal("test", "failed to stop mysql container")
                       ELSE Fatal("test", "failed to start mysql container")}
          /\ pc' = "exit"
    /\ UNCHANGED <<cleanupRegistered, wdVars, now, instVars, retryVars,
                   uriVars>>

ContainerInspect_IgnoreError ==
    /\ pc = "ContainerInspect"
    /\ \E ok \in BOOLEAN :
          /\ Require_Continue("ContainerInspect", ok, "PortMapping")
          /\ IF ok
             THEN \E present \in BOOLEAN, list \in PortLists :
                     /\ ~present => list = <<>>
                     /\ p' = [ok |-> present, list |-> list]
             ELSE p' = p
    /\ UNCHANGED <<dockerVars, cleanupRegistered, wdVars, now, m, inst, uri,
                   db, migrated, applied, ret, retryVars, uriVars>>

ContainerInspect ==
    /\ pc = "ContainerInspect"
    /\ \E ok \in BOOLEAN :
          /\ Require("ContainerInspect", ok, "PortMapping")
          /\ IF ok
             THEN \E present \in BOOLEAN, list \in PortLists :
                     /\ ~present => list = <<>>
                     /\ p' = [ok |-> present, list |-> list]
             ELSE p' = p
    /\ UNCHANGED <<dockerVars, cleanupRegistered, wdVars, now, m, inst, uri,
                   db, migrated, applied, ret, retryVars, uriVars>>

PortMapping ==
    /\ pc = "PortMapping"
    /\ IF ~p.ok \/ Len(p.list) = 0
       THEN /\ log' = Append(log, Entry("PortMapping", FALSE))
            /\ fatals' = fatals \cup
                  {Fatal("test", "failed to get host port mapping")}
            /\ pc' = "exit"
       ELSE /\ log' = Append(log, Entry("PortMapping", TRUE))
            /\ fatals' = fatals
            /\ pc' = "SpawnWatchdog"
    /\ UNCHANGED <<dockerVars, cleanupRegistered, wdVars, now, instVars,
                   retryVars, uriVars>>

\* go func() { time.Sleep(expireTimeout); ... }()
SpawnWatchdog ==
    /\ pc = "SpawnWatchdog"
    /\ wd' = "sleeping"
    /\ wdWakeAt' = now + ExpireTimeout
    /\ pc' = "RegisterCleanup"
    /\ UNCHANGED <<log, fatals, dockerVars, cleanupRegistered, now, instVars,
                   retryVars, uriVars>>

\* t.Cleanup(func() { stopContainer() })
RegisterCleanup ==
    /\ pc = "RegisterCleanup"
    /\ cleanupRegistered' = TRUE
    /\ pc' = "BuildInstance"
    /\ UNCHANGED <<log, fatals, dockerVars, wdVars, now, instVars, retryVars,
                   uriVars>>

\* lines 120-128: the struct, the uri and the backoff policy
BuildInstance ==
    /\ pc = "BuildInstance"
    /\ LET addr == Sprintf(addrFormat, <<p.list[1]>>)
       IN  /\ inst' = [conn |-> NoConn, addr |-> addr, creds |-> rootCreds]
           /\ uri' = Sprintf(uriFormat, <<rootCreds, addr>>)
    /\ retryStart' = now
    /\ pc' = "RetryOperation"
    /\ UNCHANGED <<log, fatals, dockerVars, cleanupRegistered, wdVars, now,
                   m, p, db, migrated, applied, ret, wakeAt, attempted,
                   uriVars>>

Stop == -1

NextBackOff_NoLimit(elapsed, next) == next

\* the policy's answer after a failed attempt: the next interval, or Stop
\* once the budget would be exceeded
NextBackOff(elapsed, next) ==
    IF elapsed + next > MaxElapsedTime THEN Stop ELSE next

RetrySucceeded_OpenOnly(openOk, pingOk) == openOk

\* the retried operation returns nil: neither sql.Open nor Ping gave an error
RetrySucceeded(openOk, pingOk) == openOk /\ pingOk

\* one call of the retried operation, lines 131-144, and what backoff.Retry
\* does with its result
RetryOperation ==
    /\ pc = "RetryOperation"
    /\ attempted' = TRUE
    /\ \E openOk, pingOk \in BOOLEAN :
          /\ pingOk => (openOk /\ cont = "running")
          /\ inst' = [inst EXCEPT !.conn =
                         IF openOk
                         THEN [dsn |-> uri, open |-> TRUE, pinged |-> pingOk]
                         ELSE NoConn]
          /\ IF RetrySucceeded(openOk, pingOk)
             THEN /\ log' = Append(log, Entry("Retry", TRUE))
                  /\ pc' = "OpenDB"
                  /\ wakeAt' = wakeAt
             ELSE \E next \in Intervals :
                     LET d == NextBackOff(now - retryStart, next)
                     IN  IF d = Stop
                         THEN /\ log' = Append(log, Entry("Retry", FALSE))
                              /\ pc' = "RetryFailed"
                              /\ wakeAt' = wakeAt
                         ELSE /\ log' = log
                              /\ pc' = "RetrySleep"
                              /\ wakeAt' = now + d
    /\ UNCHANGED <<fatals, dockerVars, cleanupRegistered, wdVars, now, m, p,
                   uri, db, migrated, applied, ret, retryStart, uriVars>>

\* the sleep between two attempts
RetrySleep ==
    /\ pc = "RetrySleep"
    /\ now' = Min(Max(now, wakeAt), Horizon)
    /\ pc' = "RetryOperation"
    /\ UNCHANGED <<log, fatals, dockerVars, cleanupRegistered, wdVars,
                   instVars, retryVars, uriVars>>

RetryFailed_NoStop ==
    /\ pc = "RetryFailed"
    /\ fatals' = fatals \cup
          {Fatal("test", "failed to connect to mysql container")}
    /\ pc' = "exit"
    /\ UNCHANGED <<log, dockerVars, cleanupRegistered, wdVars, now, instVars,
                   retryVars, uriVars>>

\* lines 147-150
RetryFailed ==
    /\ pc = "RetryFailed"
    /\ \E res \in StopOutcomes(cont) :
          /\ ContainerStop("direct", res)
          /\ fatals' = fatals \cup
                {IF StopFails(res)
                 THEN Fatal("test", "failed to stop mysql container")
                 ELSE Fatal("test", "failed to connect to mysql container")}
    /\ pc' = "exit"
    /\ UNCHANGED <<log, cleanupRegistered, wdVars, now, instVars, retryVars,
                   uriVars>>

OpenDB ==
    /\ pc = "OpenDB"
    /\ \E ok \in BOOLEAN :
          /\ Require("OpenDB", ok, "SetDialect")
          /\ db' = IF ok THEN OpenHandle(uri) ELSE NoConn
    /\ UNCHANGED <<dockerVars, cleanupRegistered, wdVars, now, m, inst, p,
                   uri, migrated, applied, ret, retryVars, uriVars>>

SetDialect ==
    /\ pc = "SetDialect"
    /\ \E ok \in BOOLEAN : Require("SetDialect", ok, "GooseUp")
    /\ UNCHANGED <<dockerVars, cleanupRegistered, wdVars, now, instVars,
                   retryVars, uriVars>>

\* assets.EmbedMigrations, assets.MySQLMigrationDir: the versions of the
\* embedded migration scripts
EmbeddedMigrations == 1..NumMigrations

Pending(done) == EmbeddedMigrations \ done

\* goose.Up stopping before version k: the pending versions below k are
\* applied, in order
UpUntil(done, k) == done \cup {v \in Pending(done) : v < k}

\* goose.Up without error: every pending version is applied
Up(done) == UpUntil(done, NumMigrations + 1)

GooseUp_IgnoreError ==
    /\ pc = "GooseUp"
    /\ \E ok \in BOOLEAN :
          /\ ok => cont = "running"
          /\ log' = Append(log, Entry("GooseUp", ok))
          /\ pc' = "Return"
          /\ fatals' = fatals
          /\ migrated' = ok
          /\ IF ok
             THEN applied' = Up(applied)
             ELSE \E k \in Pending(applied) : applied' = UpUntil(applied, k)
    /\ UNCHANGED <<dockerVars, cleanupRegistered, wdVars, now, m, inst, p,
                   uri, db, ret, retryVars, uriVars>>

GooseUp ==
    /\ pc = "GooseUp"
    /\ \E ok \in BOOLEAN :
          /\ ok => cont = "running"
          /\ Require("GooseUp", ok, "Return")
          /\ migrated' = ok
          /\ IF ok
             THEN applied' = Up(applied)
             ELSE \E k \in Pending(applied) : applied' = UpUntil(applied, k)
    /\ UNCHANGED <<dockerVars, cleanupRegistered, wdVars, now, m, inst, p,
                   uri, db, ret, retryVars, uriVars>>

Return_Receiver ==
    /\ pc = "Return"
    /\ ret' = "receiver"
    /\ log' = Append(log, Entry("Return", TRUE))
    /\ pc' = "body"
    /\ UNCHANGED <<fatals, dockerVars, cleanupRegistered, wdVars, now, m,
                   inst, p, uri, db, migrated, applied, retryVars, uriVars>>

\* return mySQLTestContainer: the local struct of line 120, not the receiver
Return ==
    /\ pc = "Return"
    /\ ret' = "local"
    /\ log' = Append(log, Entry("Return", TRUE))
    /\ pc' = "body"
    /\ UNCHANGED <<fatals, dockerVars, cleanupRegistered, wdVars, now, m,
                   inst, p, uri, db, migrated, applied, retryVars, uriVars>>

----------------------------------------------------------------------------
(* The test body and the end of the test *)

GetConnectionURI_NoOptions(x) ==
    Sprintf(<<"%","s","@","t","c","p","(","%","s",")","/","%","s">>,
            <<x.creds, x.addr, defaultdb>>)

GetConnectionURI(x) == Sprintf(getURIFormat, <<x.creds, x.addr, defaultdb>>)

GetConnectionURICall_Consuming(target) ==
    /\ uriCalls < MaxURICalls
    /\ \/ target = "m" /\ pc \in {"NewClient", "body"}
       \/ target = "ret" /\ pc = "body" /\ ret = "local"
    /\ uriOut' = [on |-> target,
                  val |-> GetConnectionURI(IF target = "m" THEN m ELSE inst)]
    /\ uriCalls' = uriCalls + 1
    /\ m' = IF target = "m" THEN [m EXCEPT !.creds = <<>>] ELSE m
    /\ inst' = IF target = "ret" THEN [inst EXCEPT !.creds = <<>>] ELSE inst
    /\ UNCHANGED <<pc, log, fatals, dockerVars, cleanupRegistered, wdVars,
                   now, p, uri, db, migrated, applied, ret, retryVars>>

\* the test calls GetConnectionURI on the struct it made itself ("m") or on
\* the one RunMySQLTestContainer returned ("ret")
GetConnectionURICall(target) ==
    /\ uriCalls < MaxURICalls
    /\ \/ target = "m" /\ pc \in {"NewClient", "body"}
       \/ target = "ret" /\ pc = "body" /\ ret = "local"
    /\ uriOut' = [on |-> target,
                  val |-> GetConnectionURI(IF target = "m" THEN m ELSE inst)]
    /\ uriCalls' = uriCalls + 1
    /\ m' = m
    /\ inst' = inst
    /\ UNCHANGED <<pc, log, fatals, dockerVars, cleanupRegistered, wdVars,
                   now, p, uri, db, migrated, applied, ret, retryVars>>

CallOnReceiver == GetConnectionURICall("m")

CallOnReturned == GetConnectionURICall("ret")

TestEnd ==
    /\ pc = "body"
    /\ pc' = "exit"
    /\ UNCHANGED <<log, fatals, dockerVars, cleanupRegistered, wdVars, now,
                   instVars, retryVars, uriVars>>

RunCleanup_CancelWatchdog ==
    /\ pc = "exit"
    /\ cleanupRegistered
    /\ \E res \in StopOutcomes(cont) :
          /\ ContainerStop("cleanup", res)
          /\ fatals' = IF StopFails(res)
                       THEN fatals \cup
                            {Fatal("cleanup", "failed to stop mysql container")}
                       ELSE fatals
    /\ wd' = IF wd = "sleeping" THEN "cancelled" ELSE wd
    /\ pc' = "done"
    /\ UNCHANGED <<log, cleanupRegistered, wdWakeAt, now, instVars, retryVars,
                   uriVars>>

\* the testing framework runs the registered cleanup: stopContainer()
RunCleanup ==
    /\ pc = "exit"
    /\ cleanupRegistered
    /\ \E res \in StopOutcomes(cont) :
          /\ ContainerStop("cleanup", res)
          /\ fatals' = IF StopFails(res)
                       THEN fatals \cup
                            {Fatal("cleanup", "failed to stop mysql container")}
                       ELSE fatals
    /\ pc' = "done"
    /\ UNCHANGED <<log, cleanupRegistered, wdVars, now, instVars, retryVars,
                   uriVars>>

\* the test function exited before t.Cleanup was reached
ExitWithoutCleanup ==
    /\ pc = "exit"
    /\ ~cleanupRegistered
    /\ pc' = "done"
    /\ UNCHANGED <<log, fatals, dockerVars, cleanupRegistered, wdVars, now,
                   instVars, retryVars, uriVars>>

----------------------------------------------------------------------------
(* The watchdog goroutine, lines 107-114 *)

WatchdogWake_NoSleep ==
    /\ wd = "sleeping"
    /\ now' = now
    /\ wd' = "stopping"
    /\ UNCHANGED <<pc, log, fatals, dockerVars, cleanupRegistered, wdWakeAt,
                   instVars, retryVars, uriVars>>

\* time.Sleep(expireTimeout) returns
WatchdogWake ==
    /\ wd = "sleeping"
    /\ now' = Min(Max(now, wdWakeAt), Horizon)
    /\ wd' = "stopping"
    /\ UNCHANGED <<pc, log, fatals, dockerVars, cleanupRegistered, wdWakeAt,
                   instVars, retryVars, uriVars>>

WatchdogStop_NoStop ==
    /\ wd = "stopping"
    /\ wd' = "done"
    /\ UNCHANGED <<pc, log, fatals, dockerVars, cleanupRegistered, wdWakeAt,
                   now, instVars, retryVars, uriVars>>

WatchdogStop ==
    /\ wd = "stopping"
    /\ \E res \in StopOutcomes(cont) :
          /\ ContainerStop("watchdog", res)
          /\ fatals' = IF ExpireFails(res)
                       THEN fatals \cup
                            {Fatal("watchdog", "failed to expire mysql container")}
                       ELSE fatals
    /\ wd' = "done"
    /\ UNCHANGED <<pc, log, cleanupRegistered, wdWakeAt, now, instVars,
                   retryVars, uriVars>>

----------------------------------------------------------------------------
(* The environment *)

\* HostConfig.AutoRemove: the daemon removes the container once it exited
AutoRemove ==
    /\ cont = "exited"
    /\ cont' = "removed"
    /\ UNCHANGED <<pc, log, fatals, stops, cleanupRegistered, wdVars, now,
                   instVars, retryVars, uriVars>>

\* time passes while the test goroutine waits for the database or runs the
\* test body; elsewhere only the two sleeps move the clock
Tick ==
    /\ pc \in {"RetryOperation", "body"}
    /\ now < MaxTime
    /\ now' = now + TickLen
    /\ UNCHANGED <<pc, log, fatals, dockerVars, cleanupRegistered, wdVars,
                   instVars, retryVars, uriVars>>

----------------------------------------------------------------------------
(* Specifications *)

Setup ==
    \/ NewClient
    \/ ImagePull
    \/ CopyPullOutput
    \/ NewString
    \/ ContainerCreate
    \/ ContainerStart
    \/ ContainerInspect
    \/ PortMapping
    \/ SpawnWatchdog
    \/ RegisterCleanup
    \/ BuildInstance
    \/ RetryOperation
    \/ RetrySleep
    \/ RetryFailed
    \/ OpenDB
    \/ SetDialect
    \/ GooseUp
    \/ Return

Watchdog == WatchdogWake \/ WatchdogStop

Next ==
    \/ Setup
    \/ CallOnReceiver
    \/ CallOnReturned
    \/ TestEnd
    \/ RunCleanup
    \/ ExitWithoutCleanup
    \/ Watchdog
    \/ AutoRemove
    \/ Tick

Spec == Init /\ [][Next]_vars

\* the go scheduler runs every runnable goroutine, and every external call
\* returns; the test body may run for ever
FairSpec ==
    /\ Spec
    /\ WF_vars(Setup)
    /\ WF_vars(Watchdog)
    /\ WF_vars(RunCleanup \/ ExitWithoutCleanup)

----------------------------------------------------------------------------
(* Claims *)

SetupOrder ==
    <<"NewClient", "ImagePull", "Copy", "NewString", "ContainerCreate",
      "ContainerStart", "ContainerInspect", "PortMapping", "Retry", "OpenDB",
      "SetDialect", "GooseUp", "Return">>

Exited == pc \in {"exit", "done"}

TestFailedInSetup == \E f \in fatals : f.by = "test"

StopFatal(by) ==
    Fatal(IF by = "direct" THEN "test" ELSE by, "failed to stop mysql container")

\* C1: once ContainerStart has succeeded, no exit of RunMySQLTestContainer
\* leaves the container with no stop issued, no teardown registered and no
\* watchdog spawned.
C1_StartedContainerIsCovered ==
    (Logged("ContainerStart") /\ Exited)
        => (stops # <<>> \/ cleanupRegistered \/ wd # "none")

\* C2: when the retry loop has given up, stopContainer has been called
\* directly, the test has been failed and no datastore is returned.
C2_ExhaustionStopsAndFails ==
    LoggedFailure("Retry") =>
        /\ ret = "none"
        /\ pc \in {"RetryFailed", "exit", "done"}
        /\ Exited => (StoppedBy("direct") /\ TestFailedInSetup)

C2_Witness ==
    /\ LoggedFailure("Retry")
    /\ pc = "done"
    /\ \E i \in DOMAIN stops :
          stops[i].by = "direct" /\ stops[i].res = "ok"
                                 /\ stops[i].found = "running"
    /\ cont = "removed"

\* C3: a datastore is returned only if every setup step succeeded; a failed
\* step is the last step executed, fails the test and no datastore is
\* returned.
C3_AllOrNothing ==
    /\ ret = "local" =>
          \A k \in 1..(Len(SetupOrder) - 1) : Logged(SetupOrder[k])
    /\ \A i \in DOMAIN log :
          ~log[i].ok =>
              /\ i = Len(log)
              /\ ret = "none"
              /\ pc \in {"RetryFailed", "exit", "done"}
              /\ Exited => TestFailedInSetup

C3_Witness ==
    /\ LoggedFailure("GooseUp")
    /\ pc = "done"
    /\ ret = "none"
    /\ Fatal("test", "require.NoError") \in fatals

\* C4: a stopContainer call fails the test exactly when the daemon answers
\* with an error other than 'not found'; a call on a container that is
\* already gone and answered 'not found' does not fail the test.
C4_TeardownIdempotent ==
    \A i \in DOMAIN stops :
        stops[i].by \in {"direct", "cleanup"} =>
            /\ (StopFatal(stops[i].by) \in fatals) <=> (stops[i].res = "error")
            /\ stops[i].res = "notfound" => stops[i].found = "removed"

C4_Witness ==
    /\ Len(stops) = 2
    /\ stops[1].by = "direct" /\ stops[1].res = "ok"
    /\ stops[2].by = "cleanup" /\ stops[2].res = "notfound"
    /\ StopFatal("cleanup") \notin fatals
    /\ pc = "done"

\* C5: a spawned watchdog eventually issues its stop, whether or not the
\* test ever ends, and never before its expiry window has elapsed.
C5_WatchdogStops ==
    /\ (wd = "sleeping") ~> StoppedBy("watchdog")
    /\ [](\A i \in DOMAIN stops :
             stops[i].by = "watchdog" => stops[i].at >= wdWakeAt)

C5_Witness ==
    /\ pc = "body"
    /\ Len(stops) = 1
    /\ stops[1].by = "watchdog" /\ stops[1].res = "ok"
    /\ cont = "removed"

ExpectedURI ==
    rootCreds \o <<"@","t","c","p","(">>
              \o <<"l","o","c","a","l","h","o","s","t",":">> \o p.list[1]
              \o <<")","/">> \o defaultdb
              \o <<"?","p","a","r","s","e","T","i","m","e","=","t","r","u","e">>

\* C6: for a returned instance, GetConnectionURI gives the very string the
\* successfully pinged handle was opened with: root:secret, localhost and
\* the host port found by inspect, defaultdb, parseTime=true.
C6_NoDrift ==
    ret = "local" =>
        /\ inst.conn.pinged
        /\ GetConnectionURI(inst) = inst.conn.dsn
        /\ inst.conn.dsn = ExpectedURI
        /\ uriOut.on = "ret" => uriOut.val = inst.conn.dsn

C6_Witness ==
    /\ uriOut.on = "ret"
    /\ p.list[1] = <<"4","9","1","5","3">>
    /\ uriOut.val = inst.conn.dsn

\* C7: a returned instance has address, credentials and handle set, the
\* handle has been pinged successfully and migrations are applied; after a
\* failed setup nothing is returned.
C7_NoPartiallyReady ==
    /\ ret = "local" =>
          /\ inst.addr # <<>>
          /\ inst.creds # <<>>
          /\ inst.conn.open
          /\ inst.conn.pinged
          /\ migrated
    /\ TestFailedInSetup => ret = "none"

C7_Witness ==
    /\ ret = "local"
    /\ pc = "body"
    /\ inst.conn.pinged
    /\ wakeAt > 0

\* C8: every run of the retry loop ends, with a successful ping or with the
\* budget exhausted, and every call of RunMySQLTestContainer returns a
\* datastore or fails the test.
C8_PollingTerminates ==
    /\ (pc = "RetryOperation") ~> (Logged("Retry") \/ LoggedFailure("Retry"))
    /\ <>(ret = "local" \/ TestFailedInSetup)

C8_Witness ==
    /\ pc = "RetryFailed"
    /\ wakeAt > retryStart
    /\ now - retryStart >= MaxElapsedTime - 30

\* C9: the setup calls are made in the fixed order; the container is not
\* started before it is created, no connection is attempted before the host
\* port is known, migrations do not run before a ping succeeded, and nothing
\* is returned before migrations succeeded.
C9_FixedOrder ==
    /\ \A i \in DOMAIN log : i <= Len(SetupOrder) /\ log[i].op = SetupOrder[i]
    /\ cont # "none" => Logged("ContainerCreate")
    /\ cont \in {"running", "exited", "removed"} => Logged("ContainerStart")
    /\ attempted => (Logged("PortMapping") /\ Len(p.list) > 0)
    /\ (Logged("GooseUp") \/ LoggedFailure("GooseUp") \/ migrated)
          => (Logged("Retry") /\ inst.conn.pinged)
    /\ ret = "local" => (Logged("GooseUp") /\ migrated)

C9_Witness ==
    /\ ret = "local"
    /\ Len(log) = Len(SetupOrder)
    /\ attempted

\* C10: a GetConnectionURI call changes no field of either struct and
\* nothing of the container, and calls on the same instance return the same
\* string.
C10_Pure ==
    [][uriCalls' # uriCalls =>
          /\ m' = m /\ inst' = inst /\ db' = db
          /\ cont' = cont /\ stops' = stops
          /\ (uriOut.on = uriOut'.on => uriOut'.val = uriOut.val)]_vars

C10_Witness ==
    /\ uriCalls = 2
    /\ uriOut.on = "ret"
    /\ uriOut.val = ExpectedURI

\* C11: once goose.Up has succeeded on the fresh database, every migration
\* of the embedded set is applied, and applying the migrations again would
\* change nothing.
C11_MigrationsApplied ==
    (Logged("GooseUp") \/ migrated \/ ret = "local") =>
        /\ applied = EmbeddedMigrations
        /\ Pending(applied) = {}
        /\ Up(applied) = applied

C11_Witness ==
    /\ Logged("GooseUp")
    /\ ret = "local"
    /\ applied = EmbeddedMigrations
    /\ Cardinality(applied) = NumMigrations

\* the struct the test got back from RunMySQLTestContainer
Returned == IF ret = "receiver" THEN m ELSE inst

Populated(x) ==
    /\ x.addr = <<"l","o","c","a","l","h","o","s","t",":">> \o p.list[1]
    /\ x.creds = rootCreds
    /\ x.conn.open
    /\ x.conn.pinged

\* C12 as stated: after a successful RunMySQLTestContainer the struct made
\* by NewMySQLTestContainer, on which it was called, holds the address, the
\* credentials and the live handle.
C12_ReceiverPopulated == ret # "none" => Populated(m)

\* C12 as amended: after a successful RunMySQLTestContainer the struct it
\* returned (a new one; the receiver stays empty) holds the resolved address,
\* the credentials and the live handle, and no field of either struct
\* changes afterwards.
C12_ReturnedPopulated ==
    /\ [](ret # "none" => (Populated(Returned) /\ m = ZeroContainer))
    /\ [][ret # "none" => (inst' = inst /\ m' = m)]_vars

C12_Witness ==
    /\ ret = "local"
    /\ pc = "done"
    /\ Populated(inst)
    /\ m = ZeroContainer
    /\ uriOut.on = "m"
    /\ uriOut.val # ExpectedURI

\* C13 as stated: once the registered teardown has run, the watchdog issues
\* no further stop call.
C13_NoStopAfterTeardown ==
    \A i, j \in DOMAIN stops :
        (i < j /\ stops[i].by = "cleanup") => stops[j].by # "watchdog"

\* C13 as amended: the watchdog is not cancelled by the teardown; after the
\* registered teardown has run, the watchdog still issues its stop call once
\* its expiry window has elapsed.
C13_WatchdogNotCancelled ==
    StoppedBy("cleanup") ~> StoppedBy("watchdog")

C13_Witness ==
    /\ Len(stops) = 2
    /\ stops[1].by = "cleanup" /\ stops[1].res = "ok"
    /\ stops[2].by = "watchdog" /\ stops[2].res = "notfound"
    /\ stops[2].at >= wdWakeAt
    /\ pc = "done"

StartFatal == Fatal("test", "failed to start mysql container")

\* C14: when ContainerStart fails, stopContainer is called on the created
\* container and the test is failed; it is failed with the start message
\* unless the stop gave an error other than 'not found', and then with the
\* stop message only.
C14_StartFailure ==
    LoggedFailure("ContainerStart") =>
        /\ Exited
        /\ Len(stops) = 1
        /\ stops[1].by = "direct"
        /\ stops[1].found = "created"
        /\ IF stops[1].res = "error"
           THEN fatals = {StopFatal("direct")}
           ELSE fatals = {StartFatal}

C14_Witness ==
    /\ LoggedFailure("ContainerStart")
    /\ pc = "done"
    /\ stops[1].res = "error"
    /\ StopFatal("direct") \in fatals
    /\ StartFatal \notin fatals

ExpireFatal == Fatal("watchdog", "failed to expire mysql container")

AllAnswered == \A i \in DOMAIN stops : stops[i].res \in {"ok", "notfound"}

\* C15: whatever the order of the stop calls of the watchdog, the teardown
\* and the connection failure path, if the daemon answered each with success
\* or 'not found' then none of them has failed the test and the started
\* container is stopped; the watchdog reports a failure exactly when its
\* stop gave an error other than 'not found'.
C15_ConcurrentStops ==
    /\ AllAnswered =>
          /\ StopFatal("direct") \notin fatals
          /\ StopFatal("cleanup") \notin fatals
          /\ ExpireFatal \notin fatals
    /\ (AllAnswered /\ stops # <<>> /\ Logged("ContainerStart"))
          => cont \in {"exited", "removed"}
    /\ (ExpireFatal \in fatals) <=>
          (\E i \in DOMAIN stops :
              stops[i].by = "watchdog" /\ stops[i].res = "error")

C15_Witness ==
    /\ Len(stops) = 3
    /\ stops[1].by = "direct"
    /\ stops[2].by = "watchdog" /\ stops[2].res = "ok"
    /\ stops[3].by = "cleanup" /\ stops[3].res = "notfound"
    /\ AllAnswered
    /\ ExpireFatal \notin fatals
    /\ StopFatal("cleanup") \notin fatals
    /\ cont = "removed"

\* C16: while the test body runs with the returned datastore, the only stop
\* call issued is the watchdog's, and not before its expiry window has
\* elapsed; a test body that does not end sees the watchdog stop the
\* container.
C16_StopDuringBody ==
    /\ [][(pc = "body" /\ stops' # stops) =>
             /\ Len(stops') = Len(stops) + 1
             /\ stops'[Len(stops')].by = "watchdog"
             /\ stops'[Len(stops')].at >= wdWakeAt
             /\ now >= wdWakeAt]_vars
    /\ (pc = "body") ~> (pc # "body" \/ StoppedBy("watchdog"))

C16_Witness ==
    /\ pc = "body"
    /\ ret = "local"
    /\ Len(stops) = 1
    /\ stops[1].by = "watchdog" /\ stops[1].found = "running"
    /\ stops[1].at >= wdWakeAt
    /\ cont = "exited"

\* C17: the watchdog is spawned and the teardown registered only after the
\* inspect and the port discovery succeeded; when either fails, the test is
\* failed and the started container is left with no stop call, no teardown
\* and no watchdog.
C17_LateRegistration ==
    /\ (wd # "none" \/ cleanupRegistered) =>
          (Logged("ContainerInspect") /\ Logged("PortMapping"))
    /\ (LoggedFailure("ContainerInspect") \/ LoggedFailure("PortMapping")) =>
          /\ Exited
          /\ TestFailedInSetup
          /\ stops = <<>>
          /\ ~cleanupRegistered
          /\ wd = "none"
          /\ cont = "running"

C17_Witness ==
    /\ LoggedFailure("PortMapping")
    /\ pc = "done"
    /\ cont = "running"
    /\ stops = <<>>
    /\ wd = "none"
    /\ ~cleanupRegistered

====
